---- MODULE Spec2Model ----
(***************************************************************************)
(* Verification model of the tracer (src/tracer/src/main.rs): the per-task *)
(* statistics accumulator TaskStats, the statistics store filled by        *)
(* process_event, the target configuration done by main, its session loop  *)
(* and report; and of the override table filled by the scheduler's loader  *)
(* (src/scx_teddy/src/main.rs).                                            *)
(*                                                                         *)
(* u64 quantities are modelled at a reduced width: every u64 ranges over   *)
(* 0..U64_MAX and additions overflow past U64_MAX exactly as the 64-bit    *)
(* ones overflow past 2^64 - 1.  The f64 sum-of-squares fields are left    *)
(* out: no u64 field is ever computed from them.                           *)
(***************************************************************************)
EXTENDS Integers, Sequences, FiniteSets, TLC

VARIABLES
    stats,            \* HashMap<i32, TaskStats> behind the Mutex
    hist,             \* history: the events handed to TaskStats::update, in order
    pc,               \* the polling thread: "running" or "aborted" (a panic)
    overflow_checks,  \* the build: TRUE when u64 overflow panics, FALSE when it wraps
    \* several producer threads and a reader sharing the store
    mutex,            \* the Mutex: its holder and its poison flag
    tpc,              \* where each producer is inside process_event
    tev,              \* the event each producer decoded, and its sleep_duration
    rpc,              \* where the reader is
    snap,             \* what the reader saw of the store
    snap_done,        \* history: the dispatches that had returned at the snapshot
    completed,        \* history: the dispatches that have returned
    started,          \* number of dispatches begun
    raced,            \* history: tasks first observed by two producers at once
    \* main, from the command line to the attached programs
    args,             \* Args: mode (String) and target (Vec<i32>)
    own_id,           \* gettid() and getpid() of the main thread
    mpc,              \* where main is
    mode,             \* TraceMode, once parsed
    targets,          \* the target list of lines 243-251
    next_target,      \* position of the multi-target loop in targets
    bss,              \* target_mode, target_single_tid, target_single_tgid
    tracked_tids,     \* BPF map tracked_tids
    tracked_tgids,    \* BPF map tracked_tgids
    \* the tracing session of main, lines 303-382
    duration,         \* args.duration, in seconds
    elapsed,          \* start_time.elapsed(), in seconds
    running,          \* the Arc<Mutex<bool>> the Ctrl+C handler clears
    report,           \* what the report printed: one block per task
    iter_checks,      \* history: exit conditions evaluated since the last poll returned
    polled,           \* history: some poll has been started
    polls_since_cancel, \* history: polls started after the flag was cleared
    exit_reason,      \* history: how the loop was left
    \* scx_teddy (src/scx_teddy/src/main.rs), from load to attach
    config,           \* Config.tasks, the records of the JSON file
    lpc,              \* where the loader's main is
    next_task,        \* position of the loop of lines 102-126 in config.tasks
    target_tids       \* BPF map target_tids

storeVars == <<stats, hist, pc, overflow_checks>>

concVars == <<mutex, tpc, tev, rpc, snap, snap_done, completed, started, raced>>

mainVars == <<args, own_id, mpc, mode, targets, next_target, bss,
              tracked_tids, tracked_tgids>>

sessVars == <<duration, elapsed, running, report, iter_checks, polled,
              polls_since_cancel, exit_reason>>

loaderVars == <<config, lpc, next_task, target_tids>>

vars == <<stats, hist, pc, overflow_checks,
          mutex, tpc, tev, rpc, snap, snap_done, completed, started, raced,
          args, own_id, mpc, mode, targets, next_target, bss,
          tracked_tids, tracked_tgids,
          duration, elapsed, running, report, iter_checks, polled,
          polls_since_cancel, exit_reason,
          config, lpc, next_task, target_tids>>

----------------------------------------------------------------------------
(* Bounds of the model *)

U64_MAX == 15          \* scaled-down u64::MAX
MaxEvents == 4         \* buffers polled in one session
MaxDispatches == 3     \* dispatches begun by the concurrent producers
MaxTargets == 3        \* -t options on the command line

Tids == {1, 2}         \* task ids seen in a session

SizeofSleeptime == 32  \* size_of::<Sleeptime>(): i32, padding, 3 * u64

Min(a, b) == IF a < b THEN a ELSE b
Max(a, b) == IF a > b THEN a ELSE b

----------------------------------------------------------------------------
(* Inputs: the buffers the ring buffer hands to the callback *)

Sleeptime(tid, sleep_start, sleep_end, runtime_ns) ==
    [tid |-> tid, sleep_start |-> sleep_start, sleep_end |-> sleep_end,
     runtime_ns |-> runtime_ns]

\* <<runtime_ns, sleep_start, sleep_end>> of the polled records
Samples ==
    { <<1, 0, 0>>,                  \* no sleep: sleep_end = 0
      <<U64_MAX, 4, 2>>,            \* no sleep: sleep_end < sleep_start
      <<2, 2, 2>>,                  \* no sleep: sleep_end = sleep_start
      <<0, 0, 2>>,                  \* sleep of 2 ending at 2, no runtime
      <<1, 4, 7>>,                  \* sleep of 3 ending at 7
      <<2, 2, U64_MAX>> }           \* sleep of U64_MAX - 2 ending at U64_MAX

Events == { Sleeptime(t, s[2], s[3], s[1]) : t \in Tids, s \in Samples }

Buffers ==
    { [len |-> SizeofSleeptime, rec |-> e] : e \in Events }
    \cup { [len |-> SizeofSleeptime - 8, rec |-> Sleeptime(1, 0, 0, 0)] }

----------------------------------------------------------------------------
(* TaskStats *)

\* Mutant: the derived Default (every field 0) in the place of TaskStats::new
TaskStats_default ==
    [ runtime_sum |-> 0, runtime_min |-> 0, runtime_max |-> 0,
      sleep_sum |-> 0, sleep_min |-> 0, sleep_max |-> 0, sleep_count |-> 0,
      last_sleep_end |-> 0,
      sleep_interval_sum |-> 0, sleep_interval_min |-> 0,
      sleep_interval_max |-> 0, sleep_interval_count |-> 0,
      event_count |-> 0 ]

TaskStats_new ==
    [ runtime_sum |-> 0, runtime_min |-> U64_MAX, runtime_max |-> 0,
      sleep_sum |-> 0, sleep_min |-> U64_MAX, sleep_max |-> 0, sleep_count |-> 0,
      last_sleep_end |-> 0,
      sleep_interval_sum |-> 0, sleep_interval_min |-> U64_MAX,
      sleep_interval_max |-> 0, sleep_interval_count |-> 0,
      event_count |-> 0 ]

\* `self.f += v` on a u64 field.  r = [st, ok]: the accumulator and whether
\* the update is still running (ok = FALSE after a panic; later statements
\* of the update are then not executed).
AddTo(r, f, v) ==
    IF ~r.ok THEN r
    ELSE IF r.st[f] + v > U64_MAX
         THEN IF overflow_checks
              THEN [r EXCEPT !.ok = FALSE]
              ELSE [r EXCEPT !.st[f] = (r.st[f] + v) % (U64_MAX + 1)]
         ELSE [r EXCEPT !.st[f] = r.st[f] + v]

\* `self.f = v`
SetTo(r, f, v) ==
    IF ~r.ok THEN r ELSE [r EXCEPT !.st[f] = v]

\* line 119
count_event(r) == AddTo(r, "event_count", 1)

\* lines 122-125
update_runtime(r, runtime_ns) ==
    LET r1 == AddTo(r, "runtime_sum", runtime_ns)
        r2 == SetTo(r1, "runtime_min", Min(r1.st.runtime_min, runtime_ns))
    IN  SetTo(r2, "runtime_max", Max(r2.st.runtime_max, runtime_ns))

\* lines 129-133
update_sleep(r, sleep_ns) ==
    LET r1 == AddTo(r, "sleep_count", 1)
        r2 == AddTo(r1, "sleep_sum", sleep_ns)
        r3 == SetTo(r2, "sleep_min", Min(r2.st.sleep_min, sleep_ns))
    IN  SetTo(r3, "sleep_max", Max(r3.st.sleep_max, sleep_ns))

\* Mutant: `>=` in the place of `>`
interval_trigger_ge(self, sleep_end) ==
    self.last_sleep_end > 0 /\ sleep_end >= self.last_sleep_end

\* Mutant: the `last_sleep_end > 0` test is missing
interval_trigger_nofirst(self, sleep_end) ==
    sleep_end > self.last_sleep_end

\* the condition of line 136
interval_trigger(self, sleep_end) ==
    self.last_sleep_end > 0 /\ sleep_end > self.last_sleep_end

\* lines 136-143
update_interval(r, sleep_end) ==
    IF r.ok /\ interval_trigger(r.st, sleep_end)
    THEN LET interval == sleep_end - r.st.last_sleep_end
             r1 == AddTo(r, "sleep_interval_count", 1)
             r2 == AddTo(r1, "sleep_interval_sum", interval)
             r3 == SetTo(r2, "sleep_interval_min",
                         Min(r2.st.sleep_interval_min, interval))
         IN  SetTo(r3, "sleep_interval_max",
                   Max(r3.st.sleep_interval_max, interval))
    ELSE r

\* Mutant: last_sleep_end only ever moves forward
set_last_sleep_end_forward(r, sleep_end) ==
    IF r.ok /\ sleep_end > r.st.last_sleep_end
    THEN [r EXCEPT !.st.last_sleep_end = sleep_end]
    ELSE r

\* line 144
set_last_sleep_end(r, sleep_end) == SetTo(r, "last_sleep_end", sleep_end)

\* lines 128-145
update_sleep_part(r, sleep_ns, sleep_end) ==
    IF sleep_ns > 0
    THEN set_last_sleep_end(update_interval(update_sleep(r, sleep_ns), sleep_end),
                            sleep_end)
    ELSE r

\* Mutant: an event without runtime is skipped, not counted
update_runtime_part_skip_zero(r, runtime_ns) ==
    IF runtime_ns = 0 THEN r ELSE update_runtime(count_event(r), runtime_ns)

\* lines 119-125
update_runtime_part(r, runtime_ns) ==
    update_runtime(count_event(r), runtime_ns)

\* TaskStats::update
update(self, runtime_ns, sleep_ns, sleep_end) ==
    update_sleep_part(update_runtime_part([st |-> self, ok |-> TRUE], runtime_ns),
                      sleep_ns, sleep_end)

----------------------------------------------------------------------------
(* process_event *)

\* plain::from_bytes::<Sleeptime>(data): Err when the buffer is too short
from_bytes(data) ==
    [ok |-> data.len >= SizeofSleeptime, event |-> data.rec]

\* Mutant: a wrapping subtraction without the `sleep_end > sleep_start` test
sleep_duration_wrapping(event) ==
    (event.sleep_end - event.sleep_start) % (U64_MAX + 1)

\* lines 207-211
sleep_duration(event) ==
    IF event.sleep_end > event.sleep_start
    THEN event.sleep_end - event.sleep_start
    ELSE 0

\* Mutant: stats.insert(tid, TaskStats::new()) whether or not tid is present
insert_new(map, tid) ==
    [t \in DOMAIN map \cup {tid} |-> IF t = tid THEN TaskStats_new ELSE map[t]]

\* stats.entry(tid).or_insert_with(TaskStats::new)
or_insert_with(map, tid) ==
    IF tid \in DOMAIN map THEN map ELSE map @@ (tid :> TaskStats_new)

\* The ring buffer callback, run synchronously inside ringbuf.poll by the
\* polling thread.  A panic (the unwrap of line 205, an overflowing add of
\* an overflow-checking build) ends the process; the writes made before the
\* panicking statement have happened.
process_event(data) ==
    /\ pc = "running"
    /\ Len(hist) < MaxEvents
    /\ LET dec == from_bytes(data) IN
       IF ~dec.ok
       THEN /\ pc' = "aborted"
            /\ UNCHANGED <<stats, hist, overflow_checks>>
            /\ UNCHANGED <<concVars, mainVars, sessVars, loaderVars>>
       ELSE LET event == dec.event
                map == or_insert_with(stats, event.tid)
                r == update(map[event.tid], event.runtime_ns,
                            sleep_duration(event), event.sleep_end)
            IN  /\ stats' = [map EXCEPT ![event.tid] = r.st]
                /\ hist' = Append(hist, event)
                /\ pc' = IF r.ok THEN "running" ELSE "aborted"
                /\ UNCHANGED overflow_checks
                /\ UNCHANGED <<concVars, mainVars, sessVars, loaderVars>>

----------------------------------------------------------------------------
(* main: from the command line to the attached programs.  The globals of   *)
(* the BPF object live in its .bss section (bss_data is present) and are   *)
(* zero until main writes them; both maps start empty.  Calls into libbpf  *)
(* may fail, which ends main with an error.                                *)

ModeStrings == {"tid", "tgid", "pid"}
TargetIds == Tids
OwnIds == {2, 3}

RECURSIVE SeqsUpTo(_, _)
SeqsUpTo(S, n) ==
    IF n = 0 THEN { << >> }
    ELSE LET shorter == SeqsUpTo(S, n - 1)
         IN  shorter \cup { Append(q, x) : q \in { r \in shorter : Len(r) = n - 1 },
                                           x \in S }

EmptyMap == [k \in {} |-> 1]

\* enum TraceMode { Tid = 0, Tgid = 1 } and `mode as i32`
mode_as_i32(m) == IF m = "Tid" THEN 0 ELSE 1

\* Mutant: a mode that is neither "tid" nor "tgid" falls back to Tid
parse_mode_lenient(str) ==
    IF str = "tgid" THEN [ok |-> TRUE, mode |-> "Tgid"]
    ELSE [ok |-> TRUE, mode |-> "Tid"]

\* lines 225-229
parse_mode(str) ==
    CASE str = "tid" -> [ok |-> TRUE, mode |-> "Tid"]
      [] str = "tgid" -> [ok |-> TRUE, mode |-> "Tgid"]
      [] OTHER -> [ok |-> FALSE, mode |-> "Tid"]

\* lines 243-251; in the main thread gettid() = getpid() = own
target_list(given, m, own) ==
    IF given = << >> THEN << own >> ELSE given

\* Mutant: the fast path is taken whenever there is a target
single_target_any(list) == Len(list) >= 1

\* the tests of lines 260 and 281
single_target(list) == Len(list) = 1

\* Map::update(key, value, MapFlags::ANY) that succeeded
map_update(map, key, value) ==
    [k \in DOMAIN map \cup {key} |-> IF k = key THEN value ELSE map[k]]

Main_ParseMode ==
    /\ mpc = "start"
    /\ LET parsed == parse_mode(args.mode) IN
       IF parsed.ok
       THEN /\ mode' = parsed.mode
            /\ mpc' = "parsed"
       ELSE /\ mpc' = "failed"
            /\ UNCHANGED mode
    /\ UNCHANGED <<args, own_id, targets, next_target, bss,
                   tracked_tids, tracked_tgids>>
    /\ UNCHANGED <<storeVars, concVars, sessVars, loaderVars>>

\* lines 232-235: open and load the skeleton
Main_OpenLoad(ok) ==
    /\ mpc = "parsed"
    /\ mpc' = IF ok THEN "loaded" ELSE "failed"
    /\ UNCHANGED <<args, own_id, mode, targets, next_target, bss,
                   tracked_tids, tracked_tgids>>
    /\ UNCHANGED <<storeVars, concVars, sessVars, loaderVars>>

\* lines 238-298 up to the first map update: the mode, the target list, and
\* either the single-target field or the start of the multi-target loop
Main_Configure ==
    /\ mpc = "loaded"
    /\ LET list == target_list(args.target, mode, own_id)
           withMode == [bss EXCEPT !.target_mode = mode_as_i32(mode)]
       IN  /\ targets' = list
           /\ IF single_target(list)
              THEN /\ bss' = IF mode = "Tid"
                             THEN [withMode EXCEPT !.target_single_tid = list[1]]
                             ELSE [withMode EXCEPT !.target_single_tgid = list[1]]
                   /\ mpc' = "configured"
                   /\ UNCHANGED next_target
              ELSE /\ bss' = withMode
                   /\ mpc' = "registering"
                   /\ next_target' = 1
    /\ UNCHANGED <<args, own_id, mode, tracked_tids, tracked_tgids>>
    /\ UNCHANGED <<storeVars, concVars, sessVars, loaderVars>>

\* one turn of the loops of lines 269-274 and 290-295
Main_TrackTarget(ok) ==
    /\ mpc = "registering"
    /\ IF ok
       THEN /\ IF mode = "Tid"
               THEN /\ tracked_tids' = map_update(tracked_tids, targets[next_target], 1)
                    /\ UNCHANGED tracked_tgids
               ELSE /\ tracked_tgids' = map_update(tracked_tgids, targets[next_target], 1)
                    /\ UNCHANGED tracked_tids
            /\ next_target' = next_target + 1
            /\ mpc' = IF next_target = Len(targets) THEN "configured" ELSE "registering"
       ELSE /\ mpc' = "failed"
            /\ UNCHANGED <<next_target, tracked_tids, tracked_tgids>>
    /\ UNCHANGED <<args, own_id, mode, targets, bss>>
    /\ UNCHANGED <<storeVars, concVars, sessVars, loaderVars>>

\* line 301
Main_Attach(ok) ==
    /\ mpc = "configured"
    /\ mpc' = IF ok THEN "attached" ELSE "failed"
    /\ UNCHANGED <<args, own_id, mode, targets, next_target, bss,
                   tracked_tids, tracked_tgids>>
    /\ UNCHANGED <<storeVars, concVars, sessVars, loaderVars>>

InitMain ==
    /\ args \in [mode : ModeStrings, target : SeqsUpTo(TargetIds, MaxTargets)]
    /\ own_id \in OwnIds
    /\ mpc = "start"
    /\ mode = "Tid"
    /\ targets = << >>
    /\ next_target = 1
    /\ bss = [target_mode |-> 0, target_single_tid |-> 0, target_single_tgid |-> 0]
    /\ tracked_tids = EmptyMap
    /\ tracked_tgids = EmptyMap

\* main after `tracer -m tid -t 1 -t 2` has attached its programs
InitAttached ==
    /\ args = [mode |-> "tid", target |-> <<1, 2>>]
    /\ own_id = 3
    /\ mpc = "attached"
    /\ mode = "Tid"
    /\ targets = <<1, 2>>
    /\ next_target = 3
    /\ bss = [target_mode |-> 0, target_single_tid |-> 0, target_single_tgid |-> 0]
    /\ tracked_tids = [k \in {1, 2} |-> 1]
    /\ tracked_tgids = EmptyMap

NextMain ==
    \/ Main_ParseMode
    \/ \E ok \in BOOLEAN : Main_OpenLoad(ok)
    \/ Main_Configure
    \/ \E ok \in BOOLEAN : Main_TrackTarget(ok)
    \/ \E ok \in BOOLEAN : Main_Attach(ok)

Producers == {"p1", "p2"}
Reader == "main"
NoThread == "none"

InitStore ==
    /\ stats = [t \in {} |-> TaskStats_new]
    /\ hist = << >>
    /\ pc = "running"
    /\ overflow_checks \in BOOLEAN

InitThreads ==
    /\ mutex = [holder |-> NoThread, poisoned |-> FALSE]
    /\ tpc = [p \in Producers |-> "idle"]
    /\ tev = [p \in Producers |-> [event |-> Sleeptime(0, 0, 0, 0), sleep_ns |-> 0]]
    /\ rpc = "waiting"
    /\ snap = [t \in {} |-> TaskStats_new]
    /\ snap_done = << >>
    /\ completed = << >>
    /\ started = 0
    /\ raced = {}

\* no block printed
NoReport == [t \in {} |-> [event_count |-> 0, sleep_section |-> FALSE,
                           interval_section |-> FALSE]]

\* lines 322-323 and 326: the session has not begun; -d 0
InitSessionIdle ==
    /\ duration = 0
    /\ elapsed = 0
    /\ running = TRUE
    /\ report = NoReport
    /\ iter_checks = 0
    /\ polled = FALSE
    /\ polls_since_cancel = 0
    /\ exit_reason = "none"

\* scx_teddy is not running
InitLoaderIdle ==
    /\ config = << >>
    /\ lpc = "loaded"
    /\ next_task = 1
    /\ target_tids = [k \in {} |-> 0]

Init == InitStore /\ InitThreads /\ InitAttached /\ InitSessionIdle /\ InitLoaderIdle

InitStartup == InitStore /\ InitThreads /\ InitMain /\ InitSessionIdle /\ InitLoaderIdle

SpecMain == InitStartup /\ [][NextMain]_vars

Next == \E data \in Buffers : process_event(data)

Spec == Init /\ [][Next]_vars

----------------------------------------------------------------------------
(* The tracing session of main: lines 303-382.  The whole program is       *)
(* followed from the command line `tracer -m MODE -t 1 -t 2 -d DURATION`   *)
(* to the report.                                                          *)

MaxElapsed == 2        \* seconds the clock is followed for
MaxSessionEvents == 3  \* buffers the ring buffer delivers in one session

Durations == {0, 1}    \* -d options

\* <<runtime_ns, sleep_start, sleep_end>> of the records of a session
SessionSamples ==
    { <<1, 0, 0>>,                  \* no sleep
      <<0, 0, 2>>,                  \* sleep of 2 ending at 2
      <<1, 4, 7>> }                 \* sleep of 3 ending at 7

SessionBuffers ==
    { [len |-> SizeofSleeptime, rec |-> Sleeptime(t, s[2], s[3], s[1])] :
        t \in Tids, s \in SessionSamples }
    \cup { [len |-> SizeofSleeptime - 8, rec |-> Sleeptime(1, 0, 0, 0)] }

\* Mutant: a do-while loop, polling before the conditions are looked at
loop_first_step_poll == "polling"

\* line 333: each iteration of the while loop begins with its condition
loop_first_step == "flag_check"

\* Mutant: while true, the flag is never looked at
loop_condition_always(flag) == TRUE

\* line 333: the while condition, the value behind the running mutex
loop_condition(flag) == flag

\* Mutant: the elapsed time is compared whatever the duration is
timed_out_any(d, e) == e >= d

\* line 335: args.duration > 0 && start_time.elapsed() >= duration
timed_out(d, e) == d > 0 /\ e >= d

\* Mutant: a task that never slept is left out of the report
skip_task_no_sleep(task_stats) == task_stats.sleep_count = 0

\* lines 348-350: if task_stats.event_count == 0 { continue; }
skip_task(task_stats) == task_stats.event_count = 0

\* lines 352-379: one block; the optional sections of lines 361 and 370
report_block(task_stats) ==
    [event_count |-> task_stats.event_count,
     sleep_section |-> task_stats.sleep_count > 0,
     interval_section |-> task_stats.sleep_interval_count > 0]

\* lines 346-380: for (&tid, task_stats) in stats.iter()
print_report(map) ==
    [t \in {k \in DOMAIN map : ~skip_task(map[k])} |-> report_block(map[t])]

\* main is inside the while loop of lines 333-341
InLoop == mpc \in {"flag_check", "time_check", "polling"}

\* lines 303-330: the store, the ring buffer (lines 318 and 319 return the
\* error of a failed add or build), start_time, the Ctrl+C handler
Session_Setup(ok) ==
    /\ pc = "running"
    /\ mpc = "attached"
    /\ mpc' = IF ok THEN loop_first_step ELSE "failed"
    /\ polled' = (ok /\ loop_first_step = "polling")
    /\ UNCHANGED <<args, own_id, mode, targets, next_target, bss,
                   tracked_tids, tracked_tgids>>
    /\ UNCHANGED <<duration, elapsed, running, report, iter_checks,
                   polls_since_cancel, exit_reason>>
    /\ UNCHANGED <<storeVars, concVars, loaderVars>>

\* line 333: while *running.lock().unwrap()
Session_FlagCheck ==
    /\ pc = "running"
    /\ mpc = "flag_check"
    /\ iter_checks' = 1
    /\ IF loop_condition(running)
       THEN /\ mpc' = "time_check"
            /\ UNCHANGED exit_reason
       ELSE /\ mpc' = "report"
            /\ exit_reason' = "cancelled"
    /\ UNCHANGED <<args, own_id, mode, targets, next_target, bss,
                   tracked_tids, tracked_tgids>>
    /\ UNCHANGED <<duration, elapsed, running, report, polled,
                   polls_since_cancel>>
    /\ UNCHANGED <<storeVars, concVars, loaderVars>>

\* lines 335-337 and the call of line 340: break, or enter ringbuf.poll
Session_TimeCheck ==
    /\ pc = "running"
    /\ mpc = "time_check"
    /\ iter_checks' = 2
    /\ IF timed_out(duration, elapsed)
       THEN /\ mpc' = "report"
            /\ exit_reason' = "timeout"
            /\ UNCHANGED <<polled, polls_since_cancel>>
       ELSE /\ mpc' = "polling"
            /\ polled' = TRUE
            /\ polls_since_cancel' =
                 IF running THEN polls_since_cancel
                 ELSE Min(polls_since_cancel + 1, 2)
            /\ UNCHANGED exit_reason
    /\ UNCHANGED <<args, own_id, mode, targets, next_target, bss,
                   tracked_tids, tracked_tgids>>
    /\ UNCHANGED <<duration, elapsed, running, report>>
    /\ UNCHANGED <<storeVars, concVars, loaderVars>>

\* line 317: the callback, run by ringbuf.poll for each buffer it finds
Session_Callback(data) ==
    /\ mpc = "polling"
    /\ Len(hist) < MaxSessionEvents
    /\ process_event(data)

\* line 340: ringbuf.poll(..) returns after at most 100 ms; the ? returns
\* its error from main
Session_PollReturn(ok) ==
    /\ pc = "running"
    /\ mpc = "polling"
    /\ mpc' = IF ok THEN "flag_check" ELSE "failed"
    /\ iter_checks' = 0
    /\ UNCHANGED <<args, own_id, mode, targets, next_target, bss,
                   tracked_tids, tracked_tgids>>
    /\ UNCHANGED <<duration, elapsed, running, report, polled,
                   polls_since_cancel, exit_reason>>
    /\ UNCHANGED <<storeVars, concVars, loaderVars>>

\* lines 344-382: the report, then Ok(())
Session_Report ==
    /\ pc = "running"
    /\ mpc = "report"
    /\ mpc' = "done"
    /\ report' = print_report(stats)
    /\ UNCHANGED <<args, own_id, mode, targets, next_target, bss,
                   tracked_tids, tracked_tgids>>
    /\ UNCHANGED <<duration, elapsed, running, iter_checks, polled,
                   polls_since_cancel, exit_reason>>
    /\ UNCHANGED <<storeVars, concVars, loaderVars>>

\* lines 328-330: the handler, on its own thread, once it is installed
CtrlC ==
    /\ pc = "running"
    /\ InLoop
    /\ running
    /\ running' = FALSE
    /\ UNCHANGED <<duration, elapsed, report, iter_checks, polled,
                   polls_since_cancel, exit_reason>>
    /\ UNCHANGED <<storeVars, concVars, mainVars, loaderVars>>

\* a second of the clock behind start_time.elapsed()
Tick ==
    /\ pc = "running"
    /\ InLoop
    /\ elapsed < MaxElapsed
    /\ elapsed' = elapsed + 1
    /\ UNCHANGED <<duration, running, report, iter_checks, polled,
                   polls_since_cancel, exit_reason>>
    /\ UNCHANGED <<storeVars, concVars, mainVars, loaderVars>>

NextSession ==
    \/ \E ok \in BOOLEAN : Session_Setup(ok)
    \/ Session_FlagCheck
    \/ Session_TimeCheck
    \/ \E data \in SessionBuffers : Session_Callback(data)
    \/ \E ok \in BOOLEAN : Session_PollReturn(ok)
    \/ Session_Report
    \/ CtrlC
    \/ Tick

InitSession ==
    /\ InitStore
    /\ InitThreads
    /\ args \in [mode : ModeStrings, target : {<<1, 2>>}]
    /\ own_id = 3
    /\ mpc = "start"
    /\ mode = "Tid"
    /\ targets = << >>
    /\ next_target = 1
    /\ bss = [target_mode |-> 0, target_single_tid |-> 0, target_single_tgid |-> 0]
    /\ tracked_tids = EmptyMap
    /\ tracked_tgids = EmptyMap
    /\ duration \in Durations
    /\ elapsed = 0
    /\ running = TRUE
    /\ report = NoReport
    /\ iter_checks = 0
    /\ polled = FALSE
    /\ polls_since_cancel = 0
    /\ exit_reason = "none"
    /\ InitLoaderIdle

NextTracer == NextMain \/ NextSession

SpecSession == InitSession /\ [][NextTracer]_vars

\* the main thread is scheduled, and every poll returns
SessionFairness ==
    /\ WF_vars(Session_FlagCheck)
    /\ WF_vars(Session_TimeCheck)
    /\ WF_vars(\E ok \in BOOLEAN : Session_PollReturn(ok))
    /\ WF_vars(Session_Report)

SpecSessionFair == SpecSession /\ SessionFairness

----------------------------------------------------------------------------
(* Several producers calling process_event on the shared store, and a      *)
(* reader taking the report's snapshot.  Each thread is followed statement *)
(* by statement: the Mutex is all that orders their accesses.              *)

ConcSamples ==
    { <<1, 0, 0>>,                  \* no sleep
      <<U64_MAX, 0, 2>>,            \* sleep of 2 ending at 2
      <<1, 4, 7>> }                 \* sleep of 3 ending at 7

ConcBuffers ==
    { [len |-> SizeofSleeptime, rec |-> Sleeptime(t, s[2], s[3], s[1])] :
        t \in Tids, s \in ConcSamples }

\* Mutant: the lock is handed out while another thread holds it
lock_unguarded(m) == TRUE

\* Mutex::lock returns once no other thread holds the mutex
lock_available(m) == m.holder = NoThread

\* lines 205-211: decode and sleep_duration, on the producer's own stack
P_Begin(p, data) ==
    /\ tpc[p] = "idle"
    /\ started < MaxDispatches
    /\ started' = started + 1
    /\ LET dec == from_bytes(data) IN
       IF ~dec.ok
       THEN /\ tpc' = [tpc EXCEPT ![p] = "panicked"]
            /\ UNCHANGED <<tev, raced>>
       ELSE /\ tev' = [tev EXCEPT ![p] = [event |-> dec.event,
                                         sleep_ns |-> sleep_duration(dec.event)]]
            /\ tpc' = [tpc EXCEPT ![p] = "decoded"]
            /\ raced' =
                 IF /\ dec.event.tid \notin DOMAIN stats
                    /\ \E q \in Producers \ {p} :
                          tpc[q] = "decoded" /\ tev[q].event.tid = dec.event.tid
                 THEN raced \cup {dec.event.tid}
                 ELSE raced
    /\ UNCHANGED <<mutex, rpc, snap, snap_done, completed>>
    /\ UNCHANGED <<storeVars, mainVars, sessVars, loaderVars>>

\* line 214: stats.lock().unwrap(); the unwrap panics on a poisoned mutex
P_Lock(p) ==
    /\ tpc[p] = "decoded"
    /\ lock_available(mutex)
    /\ IF mutex.poisoned
       THEN /\ tpc' = [tpc EXCEPT ![p] = "panicked"]
            /\ UNCHANGED mutex
       ELSE /\ tpc' = [tpc EXCEPT ![p] = "locked"]
            /\ mutex' = [mutex EXCEPT !.holder = p]
    /\ UNCHANGED <<tev, rpc, snap, snap_done, completed, started, raced>>
    /\ UNCHANGED <<storeVars, mainVars, sessVars, loaderVars>>

\* line 215 and the first half of the update called at line 216 (lines
\* 119-125).  A panic unwinds through the guard: the mutex is released and
\* poisoned, the thread is gone.
P_Runtime(p) ==
    /\ tpc[p] = "locked"
    /\ LET event == tev[p].event
           map == or_insert_with(stats, event.tid)
           r == update_runtime_part([st |-> map[event.tid], ok |-> TRUE],
                                    event.runtime_ns)
       IN  /\ stats' = [map EXCEPT ![event.tid] = r.st]
           /\ hist' = Append(hist, event)
           /\ IF r.ok
              THEN /\ tpc' = [tpc EXCEPT ![p] = "updating"]
                   /\ UNCHANGED mutex
              ELSE /\ tpc' = [tpc EXCEPT ![p] = "panicked"]
                   /\ mutex' = [holder |-> NoThread, poisoned |-> TRUE]
    /\ UNCHANGED <<tev, rpc, snap, snap_done, completed, started, raced>>
    /\ UNCHANGED <<pc, overflow_checks, mainVars, sessVars, loaderVars>>

\* the second half of the update (lines 128-145), then the return of line
\* 218, which drops the guard
P_Sleep(p) ==
    /\ tpc[p] = "updating"
    /\ LET event == tev[p].event
           r == update_sleep_part([st |-> stats[event.tid], ok |-> TRUE],
                                  tev[p].sleep_ns, event.sleep_end)
       IN  /\ stats' = [stats EXCEPT ![event.tid] = r.st]
           /\ IF r.ok
              THEN /\ tpc' = [tpc EXCEPT ![p] = "idle"]
                   /\ mutex' = [mutex EXCEPT !.holder = NoThread]
                   /\ completed' = Append(completed, event)
              ELSE /\ tpc' = [tpc EXCEPT ![p] = "panicked"]
                   /\ mutex' = [holder |-> NoThread, poisoned |-> TRUE]
                   /\ UNCHANGED completed
    /\ UNCHANGED <<tev, rpc, snap, snap_done, started, raced>>
    /\ UNCHANGED <<hist, pc, overflow_checks, mainVars, sessVars, loaderVars>>

\* line 346: stats.lock().unwrap() of the report
R_Lock ==
    /\ rpc = "waiting"
    /\ lock_available(mutex)
    /\ IF mutex.poisoned
       THEN /\ rpc' = "panicked"
            /\ UNCHANGED mutex
       ELSE /\ rpc' = "locked"
            /\ mutex' = [mutex EXCEPT !.holder = Reader]
    /\ UNCHANGED <<tpc, tev, snap, snap_done, completed, started, raced>>
    /\ UNCHANGED <<storeVars, mainVars, sessVars, loaderVars>>

\* lines 347-382: the report reads every entry, then the guard is dropped
R_Report ==
    /\ rpc = "locked"
    /\ rpc' = "done"
    /\ snap' = stats
    /\ snap_done' = completed
    /\ mutex' = [mutex EXCEPT !.holder = NoThread]
    /\ UNCHANGED <<tpc, tev, completed, started, raced>>
    /\ UNCHANGED <<storeVars, mainVars, sessVars, loaderVars>>

NextConc ==
    \/ \E p \in Producers, data \in ConcBuffers : P_Begin(p, data)
    \/ \E p \in Producers : P_Lock(p)
    \/ \E p \in Producers : P_Runtime(p)
    \/ \E p \in Producers : P_Sleep(p)
    \/ R_Lock
    \/ R_Report

SpecConc == Init /\ [][NextConc]_vars

----------------------------------------------------------------------------
(* The history of a task, and what the specification says it adds up to *)

SetMax(S) == CHOOSE x \in S : \A y \in S : y <= x

RECURSIVE SetSum(_)
SetSum(B) ==   \* sum of the second components of a set of <<index, value>> pairs
    IF B = {} THEN 0
    ELSE LET x == CHOOSE y \in B : TRUE IN x[2] + SetSum(B \ {x})

Running == pc = "running"

\* the events dispatched for task t, in order
TaskHist(t) == SelectSeq(hist, LAMBDA e : e.tid = t)

IsSleepEvent(e) == e.sleep_end > e.sleep_start

SleepIdx(h) == { i \in 1..Len(h) : IsSleepEvent(h[i]) }

\* sleep_end of the last sleep event of h before position i, 0 when none
PrevSleepEnd(h, i) ==
    LET P == { j \in SleepIdx(h) : j < i }
    IN  IF P = {} THEN 0 ELSE h[SetMax(P)].sleep_end

\* the sleep events that arrive after an earlier-ending previous sleep event
IntervalIdx(h) ==
    { i \in SleepIdx(h) :
        PrevSleepEnd(h, i) > 0 /\ h[i].sleep_end > PrevSleepEnd(h, i) }

\* the values fed to each quantity, tagged with the position of their event
RuntimeFed(h) == { <<i, h[i].runtime_ns>> : i \in 1..Len(h) }
SleepFed(h) == { <<i, h[i].sleep_end - h[i].sleep_start>> : i \in SleepIdx(h) }
IntervalFed(h) ==
    { <<i, h[i].sleep_end - PrevSleepEnd(h, i)>> : i \in IntervalIdx(h) }

Values(B) == { x[2] : x \in B }

\* a step that dispatched an event: the event, and the accumulator it met
Dispatched == hist' # hist
LastEvent == hist'[Len(hist')]
Before(t) == IF t \in DOMAIN stats THEN stats[t] ELSE TaskStats_new

----------------------------------------------------------------------------
(* Claims *)

\* C1: while the session runs, each task's event_count is the number of its
\* events, sleep_count the number of those with sleep_end > sleep_start, and
\* sleep_interval_count the number of sleep events that arrived after a
\* previous sleep event with a smaller sleep_end; a task without an entry has
\* had no event.
C1_CountsMatchTriggers ==
    Running =>
        \A t \in Tids :
            LET h == TaskHist(t) IN
            IF t \in DOMAIN stats
            THEN /\ stats[t].event_count = Len(h)
                 /\ stats[t].sleep_count = Cardinality(SleepIdx(h))
                 /\ stats[t].sleep_interval_count = Cardinality(IntervalIdx(h))
            ELSE h = << >>

C1_Witness ==
    /\ Running
    /\ \E t \in DOMAIN stats :
          /\ stats[t].event_count = 4
          /\ stats[t].sleep_count = 3
          /\ stats[t].sleep_interval_count = 1

\* min <= every fed value <= max, and min and max are fed values
Brackets(lo, hi, V) ==
    /\ \A v \in V : lo <= v /\ v <= hi
    /\ lo \in V
    /\ hi \in V
    /\ lo <= hi

\* C2: while the session runs, for each task and each of the three quantities
\* whose count is > 0, min <= every value fed to the quantity <= max, min <= max,
\* and min and max are both values that were fed.
C2_MinMaxBracket ==
    Running =>
        \A t \in DOMAIN stats :
            LET h == TaskHist(t)
                s == stats[t]
            IN  /\ s.event_count > 0 =>
                      Brackets(s.runtime_min, s.runtime_max, Values(RuntimeFed(h)))
                /\ s.sleep_count > 0 =>
                      Brackets(s.sleep_min, s.sleep_max, Values(SleepFed(h)))
                /\ s.sleep_interval_count > 0 =>
                      Brackets(s.sleep_interval_min, s.sleep_interval_max,
                               Values(IntervalFed(h)))

C2_Witness ==
    /\ Running
    /\ \E t \in DOMAIN stats :
          /\ stats[t].sleep_interval_count = 2
          /\ stats[t].sleep_interval_min < stats[t].sleep_interval_max
          /\ stats[t].sleep_min < stats[t].sleep_max
          /\ stats[t].runtime_min < stats[t].runtime_max

\* C3: when a sleep event (sleep_end > sleep_start) is dispatched and the
\* update completes, an interval sample is recorded if and only if the task
\* had a previous sleep event and that event's sleep_end is smaller than this
\* one's; the sample is sleep_end minus the previous sleep event's sleep_end.
\* Otherwise the interval accumulator is left as it was.  So a task whose
\* history is two sleep events ending at a and at b > a holds exactly one
\* sample, of value b - a (2 and 7: one sample of 5), and a task with one
\* sleep event holds none.
C3_IntervalStep ==
    (Dispatched /\ pc' = "running" /\ IsSleepEvent(LastEvent)) =>
        LET e == LastEvent
            old == Before(e.tid)
            new == stats'[e.tid]
            h == TaskHist(e.tid)
            prev == PrevSleepEnd(h, Len(h) + 1)
        IN  IF prev > 0 /\ e.sleep_end > prev
            THEN /\ new.sleep_interval_count = old.sleep_interval_count + 1
                 /\ new.sleep_interval_min =
                        Min(old.sleep_interval_min, e.sleep_end - prev)
                 /\ new.sleep_interval_max =
                        Max(old.sleep_interval_max, e.sleep_end - prev)
                 /\ old.sleep_interval_sum + (e.sleep_end - prev) <= U64_MAX =>
                        new.sleep_interval_sum =
                            old.sleep_interval_sum + (e.sleep_end - prev)
            ELSE /\ new.sleep_interval_count = old.sleep_interval_count
                 /\ new.sleep_interval_min = old.sleep_interval_min
                 /\ new.sleep_interval_max = old.sleep_interval_max
                 /\ new.sleep_interval_sum = old.sleep_interval_sum

C3_TwoSleeps ==
    Running =>
        \A t \in DOMAIN stats :
            LET h == TaskHist(t)
                s == stats[t]
            IN  /\ (Len(h) = 1 /\ IsSleepEvent(h[1])) =>
                      s.sleep_interval_count = 0
                /\ (/\ Len(h) = 2 /\ IsSleepEvent(h[1]) /\ IsSleepEvent(h[2])
                    /\ h[2].sleep_end > h[1].sleep_end) =>
                      /\ s.sleep_interval_count = 1
                      /\ s.sleep_interval_sum = h[2].sleep_end - h[1].sleep_end
                      /\ s.sleep_interval_min = h[2].sleep_end - h[1].sleep_end
                      /\ s.sleep_interval_max = h[2].sleep_end - h[1].sleep_end

C3_IntervalRecorded == [][C3_IntervalStep]_vars /\ []C3_TwoSleeps

C3_Witness ==
    /\ Running
    /\ \E t \in DOMAIN stats :
          /\ Len(TaskHist(t)) = 2
          /\ TaskHist(t)[1].sleep_end = 2
          /\ TaskHist(t)[2].sleep_end = 7
          /\ stats[t].sleep_interval_count = 1
          /\ stats[t].sleep_interval_sum = 5

\* C4: dispatching an event with sleep_end <= sleep_start (sleep_end = 0
\* included) increments the task's event_count, updates the runtime
\* accumulator when the update completes, and leaves the task's sleep-duration
\* accumulator, sleep-interval accumulator and last_sleep_end as they were.
C4_NoSleepStep ==
    (Dispatched /\ ~IsSleepEvent(LastEvent)) =>
        LET e == LastEvent
            old == Before(e.tid)
            new == stats'[e.tid]
        IN  /\ new.event_count = old.event_count + 1
            /\ pc' = "running" =>
                  /\ new.runtime_min = Min(old.runtime_min, e.runtime_ns)
                  /\ new.runtime_max = Max(old.runtime_max, e.runtime_ns)
                  /\ old.runtime_sum + e.runtime_ns <= U64_MAX =>
                        new.runtime_sum = old.runtime_sum + e.runtime_ns
            /\ new.sleep_count = old.sleep_count
            /\ new.sleep_sum = old.sleep_sum
            /\ new.sleep_min = old.sleep_min
            /\ new.sleep_max = old.sleep_max
            /\ new.last_sleep_end = old.last_sleep_end
            /\ new.sleep_interval_count = old.sleep_interval_count
            /\ new.sleep_interval_sum = old.sleep_interval_sum
            /\ new.sleep_interval_min = old.sleep_interval_min
            /\ new.sleep_interval_max = old.sleep_interval_max

C4_NoSleepFrame == [][C4_NoSleepStep]_vars

\* an event with sleep_start = 4, sleep_end = 2 has been dispatched to a task
\* that had slept before
C4_Witness ==
    /\ Running
    /\ \E t \in DOMAIN stats :
          LET h == TaskHist(t) IN
          /\ Len(h) >= 2
          /\ h[Len(h)].sleep_start = 4
          /\ h[Len(h)].sleep_end = 2
          /\ stats[t].sleep_count > 0
          /\ stats[t].last_sleep_end > 2

\* C5: while the session runs, a task's last_sleep_end is the sleep_end of its
\* most recent event with sleep_end > sleep_start, and 0 when it has had none.
C5_LastSleepEnd ==
    Running =>
        \A t \in DOMAIN stats :
            LET h == TaskHist(t)
            IN  stats[t].last_sleep_end = PrevSleepEnd(h, Len(h) + 1)

\* last_sleep_end went down: sleeps ending at 7 and then at 2, no interval
C5_Witness ==
    /\ Running
    /\ \E t \in DOMAIN stats :
          LET h == TaskHist(t) IN
          /\ Len(h) = 2
          /\ h[1].sleep_end = 7
          /\ IsSleepEvent(h[2])
          /\ stats[t].last_sleep_end = 2
          /\ stats[t].sleep_interval_count = 0

\* C6: while the session runs, the sum of each quantity is the exact
\* arithmetic sum of the values fed to it.
C6_ExactSums ==
    Running =>
        \A t \in DOMAIN stats :
            LET h == TaskHist(t)
            IN  /\ stats[t].runtime_sum = SetSum(RuntimeFed(h))
                /\ stats[t].sleep_sum = SetSum(SleepFed(h))
                /\ stats[t].sleep_interval_sum = SetSum(IntervalFed(h))

\* C7: in every state sleep_count <= event_count and
\* sleep_interval_count <= event_count for every task, and no step lowers
\* event_count, sleep_count or sleep_interval_count of a task.
C7_CountsBounded ==
    \A t \in DOMAIN stats :
        /\ stats[t].sleep_count <= stats[t].event_count
        /\ stats[t].sleep_interval_count <= stats[t].event_count

C7_CountsStep ==
    \A t \in DOMAIN stats :
        /\ t \in DOMAIN stats'
        /\ stats'[t].event_count >= stats[t].event_count
        /\ stats'[t].sleep_count >= stats[t].sleep_count
        /\ stats'[t].sleep_interval_count >= stats[t].sleep_interval_count

C7_Counts == []C7_CountsBounded /\ [][C7_CountsStep]_vars

\* every event of the task was a sleep event: sleep_count = event_count
C7_Witness ==
    \E t \in DOMAIN stats :
        /\ stats[t].event_count = 3
        /\ stats[t].sleep_count = 3
        /\ stats[t].sleep_interval_count = 2

\* the store after process_event has run to completion on event e
Dispatch(map, e) ==
    LET m == or_insert_with(map, e.tid)
        r == update(m[e.tid], e.runtime_ns, sleep_duration(e), e.sleep_end)
    IN  [m EXCEPT ![e.tid] = r.st]

RECURSIVE ApplyAll(_, _)
ApplyAll(map, seq) ==
    IF seq = << >> THEN map
    ELSE ApplyAll(Dispatch(map, Head(seq)), Tail(seq))

\* the store is what the dispatches of seq give when run one after another,
\* in some order, on the empty store
SerialResult(store, seq) ==
    \E f \in Permutations(1..Len(seq)) :
        store = ApplyAll([t \in {} |-> TaskStats_new],
                         [i \in 1..Len(seq) |-> seq[f[i]]])

CountFor(seq, t) == Cardinality({ i \in 1..Len(seq) : seq[i].tid = t })

\* C8: with two producers and a reader running concurrently, the snapshot the
\* reader takes is the result of running the dispatches that had returned, one
\* after another in some order; so is the store whenever the mutex is free
\* and not poisoned (no update is lost or half-applied); and in the snapshot a
\* task has an entry exactly when a dispatch for it had returned, with
\* event_count the number of those dispatches (two concurrent first
\* observations make one entry that counts both).
C8_Serializable ==
    /\ rpc = "done" =>
          /\ SerialResult(snap, snap_done)
          /\ \A t \in Tids :
                IF CountFor(snap_done, t) = 0
                THEN t \notin DOMAIN snap
                ELSE /\ t \in DOMAIN snap
                     /\ snap[t].event_count = CountFor(snap_done, t)
    /\ (mutex.holder = NoThread /\ ~mutex.poisoned) =>
          SerialResult(stats, completed)

\* two producers decoded a first event of the same task at the same time,
\* both dispatches returned, and the reader saw one entry counting both
C8_Witness ==
    /\ rpc = "done"
    /\ started = 2
    /\ Len(snap_done) = 2
    /\ \E t \in raced :
          /\ t \in DOMAIN snap
          /\ snap[t].event_count = 2
          /\ snap[t].sleep_interval_count = 1

Range(seq) == { seq[i] : i \in 1..Len(seq) }

Configured == mpc \in {"configured", "attached"}

\* the fast-path field and the membership table of a mode
SingleField(m) == IF m = "Tid" THEN bss.target_single_tid ELSE bss.target_single_tgid
Table(m) == IF m = "Tid" THEN tracked_tids ELSE tracked_tgids
OtherMode(m) == IF m = "Tid" THEN "Tgid" ELSE "Tid"

\* C10: once main has configured its targets, in the selected mode (tid or
\* tgid): with no -t option the fast-path field holds the caller's own thread
\* id / process id and the table is empty; with one -t option the fast-path
\* field holds that id and the table is empty; with two or more the table's
\* keys are exactly the given ids, whatever their order and repetitions, each
\* with value 1, and the fast-path field still holds its initial 0.  The
\* field and the table of the other mode are untouched, and target_mode is
\* the selected mode.
C10_TargetResolution ==
    Configured =>
        LET sel == IF args.mode = "tid" THEN "Tid" ELSE "Tgid"
            n == Len(args.target)
        IN  /\ args.mode \in {"tid", "tgid"}
            /\ bss.target_mode = (IF args.mode = "tid" THEN 0 ELSE 1)
            /\ SingleField(OtherMode(sel)) = 0
            /\ DOMAIN Table(OtherMode(sel)) = {}
            /\ n = 0 => SingleField(sel) = own_id /\ DOMAIN Table(sel) = {}
            /\ n = 1 => SingleField(sel) = args.target[1] /\ DOMAIN Table(sel) = {}
            /\ n >= 2 =>
                  /\ DOMAIN Table(sel) = Range(args.target)
                  /\ \A k \in DOMAIN Table(sel) : Table(sel)[k] = 1
                  /\ SingleField(sel) = 0

\* `-m tgid -t 2 -t 1 -t 2`: the table holds 1 and 2
C10_Witness ==
    /\ mpc = "attached"
    /\ args.mode = "tgid"
    /\ args.target = <<2, 1, 2>>
    /\ DOMAIN tracked_tgids = {1, 2}
    /\ bss.target_single_tgid = 0

\* C9: dispatching an event for task t leaves every entry in the store, adds
\* an entry for t exactly when t had none, and leaves the accumulator of every
\* other task unchanged; an entry that was added is the freshly initialised
\* accumulator (counts 0, min = u64::MAX, max = 0, last_sleep_end = 0) updated
\* with that one event, an entry that was there has one event more.
C9_StoreStep ==
    Dispatched =>
        LET e == LastEvent
            t == e.tid
            new == stats'[t]
        IN  /\ DOMAIN stats' = DOMAIN stats \cup {t}
            /\ \A u \in DOMAIN stats : u # t => stats'[u] = stats[u]
            /\ t \in DOMAIN stats => new.event_count = stats[t].event_count + 1
            /\ (t \notin DOMAIN stats /\ pc' = "running") =>
                  /\ new.event_count = 1
                  /\ new.runtime_sum = e.runtime_ns
                  /\ new.runtime_min = e.runtime_ns
                  /\ new.runtime_max = e.runtime_ns
                  /\ new.sleep_interval_count = 0
                  /\ new.sleep_interval_sum = 0
                  /\ new.sleep_interval_min = U64_MAX
                  /\ new.sleep_interval_max = 0
                  /\ IF IsSleepEvent(e)
                     THEN /\ new.sleep_count = 1
                          /\ new.sleep_sum = e.sleep_end - e.sleep_start
                          /\ new.sleep_min = e.sleep_end - e.sleep_start
                          /\ new.sleep_max = e.sleep_end - e.sleep_start
                          /\ new.last_sleep_end = e.sleep_end
                     ELSE /\ new.sleep_count = 0
                          /\ new.sleep_sum = 0
                          /\ new.sleep_min = U64_MAX
                          /\ new.sleep_max = 0
                          /\ new.last_sleep_end = 0

C9_Store == [][C9_StoreStep /\ DOMAIN stats \subseteq DOMAIN stats']_vars

\* the second task got its entry after the first had been updated twice
C9_Witness ==
    /\ DOMAIN stats = Tids
    /\ \E t \in Tids, u \in Tids :
          /\ stats[t].event_count = 2
          /\ stats[u].event_count = 1
          /\ hist[Len(hist)].tid = u

----------------------------------------------------------------------------
(* The session of main *)

InvalidMode == args.mode \notin {"tid", "tgid"}

\* C11: when the mode string is neither "tid" nor "tgid", main fails at
\* the parse of the mode, before the skeleton is opened, configured or
\* attached: main is never anywhere but at its start or failed, no target
\* is written to the bss or to a table, no poll is started, no event is
\* dispatched and no report is printed.
C11_InvalidModeFails ==
    InvalidMode =>
        /\ mpc \in {"start", "failed"}
        /\ targets = << >>
        /\ bss = [target_mode |-> 0, target_single_tid |-> 0,
                  target_single_tgid |-> 0]
        /\ tracked_tids = EmptyMap
        /\ tracked_tgids = EmptyMap
        /\ ~polled
        /\ hist = << >>
        /\ exit_reason = "none"
        /\ report = NoReport

C11_Witness == InvalidMode /\ mpc = "failed"

\* the loop has been left for the report (Completed or Cancelled)
LoopLeft == mpc \in {"report", "done"}

\* C12: with duration 0 the loop is never left because of elapsed time,
\* however far the clock has advanced; when it has been left for the
\* report, the cancellation flag had been cleared by the handler.
C12_ZeroDurationNeverTimesOut ==
    duration = 0 =>
        /\ exit_reason # "timeout"
        /\ (LoopLeft => ~running /\ exit_reason = "cancelled")

C12_Witness ==
    /\ duration = 0
    /\ elapsed = MaxElapsed
    /\ polled
    /\ mpc = "done"

\* the clock is at its end and a session without a duration still polls
C12_StillPolling == duration = 0 /\ elapsed = MaxElapsed /\ mpc = "polling"

\* C13: once the session loop polls, main is either still in the loop or
\* has left it as Completed (duration elapsed) or Cancelled (flag cleared),
\* and in both the report is printed from the final store: the process is
\* never ended by a panic of the callback nor by an error returned from
\* the loop.
C13_OnlyCompletedOrCancelled ==
    polled =>
        /\ pc = "running"
        /\ InLoop \/ LoopLeft
        /\ LoopLeft => exit_reason \in {"timeout", "cancelled"}
        /\ mpc = "done" => report = print_report(stats)

\* the handler has cleared the flag
Cancelled == ~running

\* the process has ended: main returned, or a panic ended it
Terminated == mpc \in {"done", "failed"} \/ pc = "aborted"

C14_AtMostOnePoll == polls_since_cancel <= 1

C14_HandlerStep ==
    running' # running =>
        /\ running' = FALSE
        /\ UNCHANGED <<storeVars, concVars, mainVars, loaderVars>>
        /\ UNCHANGED <<duration, elapsed, report, iter_checks, polled,
                       polls_since_cancel, exit_reason>>

\* C14: the step that clears the flag changes nothing else; after the flag
\* is cleared the loop starts at most one more poll; and with the main
\* thread scheduled and every poll returning, a cancelled session always
\* ends, by the report unless a poll failed or the callback panicked.
C14_Cancellation ==
    /\ []C14_AtMostOnePoll
    /\ [][C14_HandlerStep]_vars
    /\ [](LoopLeft /\ ~running => exit_reason \in {"cancelled", "timeout"})
    /\ (Cancelled ~> Terminated)

\* the flag was cleared between the while condition and the poll: one more
\* poll ran, then the report
C14_Witness ==
    /\ polls_since_cancel = 1
    /\ exit_reason = "cancelled"
    /\ mpc = "done"

\* a step of the polling thread that hands no event to the store: the
\* delivery of a buffer that does not decode is one
C15_UndispatchedStep == pc = "running" /\ hist' = hist

\* C15: a polled buffer of the wrong size is dropped: the step leaves the
\* store as it was and the polling thread running, so that later buffers
\* are still dispatched.
C15_MalformedDropped ==
    [][C15_UndispatchedStep => pc' = "running" /\ stats' = stats]_vars

\* the tasks that had an event dispatched during the session
ObservedTasks == {t \in Tids : TaskHist(t) # << >>}

\* C16: the report printed at the end of the session has a block for
\* exactly the tasks that had an event dispatched; a block has its
\* sleep-duration section iff the task's sleep count is > 0 and its
\* sleep-interval section iff the task's interval count is > 0, the counts
\* being those of the store and those of the task's history.
C16_ReportBlocks ==
    mpc = "done" =>
        /\ DOMAIN report = ObservedTasks
        /\ \A t \in DOMAIN report :
              /\ report[t].event_count = Len(TaskHist(t))
              /\ report[t].sleep_section <=> stats[t].sleep_count > 0
              /\ report[t].sleep_section <=> SleepIdx(TaskHist(t)) # {}
              /\ report[t].interval_section <=> stats[t].sleep_interval_count > 0
              /\ report[t].interval_section <=> IntervalIdx(TaskHist(t)) # {}

\* one task reported with both sections, another with neither
C16_Witness ==
    /\ mpc = "done"
    /\ \E t, u \in DOMAIN report :
          /\ report[t].sleep_section /\ report[t].interval_section
          /\ ~report[u].sleep_section /\ ~report[u].interval_section

\* C18, as stated: the exit conditions are evaluated only after a poll:
\* none is evaluated, and the loop is not left, before the first poll of
\* the session has been started.
C18_PollBeforeChecks == (iter_checks > 0 \/ LoopLeft) => polled

C18_PollStep == mpc' = "polling" /\ mpc # "polling"

\* C18, amended: every iteration evaluates the flag (line 333), then the
\* duration (line 335), and only then polls: inside a poll both conditions
\* of the iteration have been evaluated, a poll is started only with the
\* duration not elapsed, and the loop is left from an evaluation, of the
\* flag or of the duration, also before any poll.
C18_ChecksBeforePoll ==
    /\ [](mpc = "polling" => iter_checks = 2 /\ polled)
    /\ [][C18_PollStep => ~timed_out(duration, elapsed)]_vars
    /\ [](LoopLeft /\ exit_reason = "cancelled" => iter_checks = 1)
    /\ [](LoopLeft /\ exit_reason = "timeout" => iter_checks = 2)

\* the flag was cleared before the first iteration: the report is printed
\* and no poll was ever started
C18_Witness == mpc = "done" /\ ~polled /\ exit_reason = "cancelled"

\* the duration had elapsed at the first iteration: no poll either
C18_TimeoutBeforePoll == mpc = "done" /\ ~polled /\ exit_reason = "timeout"

----------------------------------------------------------------------------
(* scx_teddy, the loader of the scheduler: src/scx_teddy/src/main.rs from  *)
(* the loaded skeleton (line 97) to the attached struct_ops (line 133)     *)

MaxTasks == 3          \* records in Config.tasks

\* TaskConfig, lines 32-37
TaskConfig(tid, prio, slice, on_ecore) ==
    [tid |-> tid, prio |-> prio, slice |-> slice, on_ecore |-> on_ecore]

\* the records a configuration file is made of
TaskConfigs ==
    { TaskConfig(t, 1, 5, 0) : t \in Tids } \cup
    { TaskConfig(t, 2, 7, 1) : t \in Tids }

\* lines 104-108: bpf_intf::target_ctx_t built from the record
target_ctx_t(task) ==
    [prio |-> task.prio, slice |-> task.slice, on_ecore |-> task.on_ecore]

\* Mutant: MapFlags::NO_EXIST in a loop that goes on, the first record of
\* a task id stays
update_no_exist(map, key, val) ==
    IF key \in DOMAIN map THEN map ELSE map @@ (key :> val)

\* line 123: target_tids.update(key_bytes, val_bytes, MapFlags::ANY) that
\* succeeded, creating the entry or replacing its value
update_any(map, key, val) ==
    [k \in DOMAIN map \cup {key} |-> IF k = key THEN val ELSE map[k]]

\* lines 102-126: one iteration of `for task in &config.tasks`; the ? of
\* line 123 returns the error of a failed update from main
Loader_Update(ok) ==
    /\ lpc = "loaded"
    /\ next_task <= Len(config)
    /\ IF ok
       THEN /\ target_tids' = update_any(target_tids, config[next_task].tid,
                                         target_ctx_t(config[next_task]))
            /\ next_task' = next_task + 1
            /\ UNCHANGED lpc
       ELSE /\ lpc' = "failed"
            /\ UNCHANGED <<target_tids, next_task>>
    /\ UNCHANGED config
    /\ UNCHANGED <<storeVars, concVars, mainVars, sessVars>>

\* lines 129-133: attach_struct_ops, after the loop
Loader_Attach(ok) ==
    /\ lpc = "loaded"
    /\ next_task > Len(config)
    /\ lpc' = IF ok THEN "attached" ELSE "failed"
    /\ UNCHANGED <<config, next_task, target_tids>>
    /\ UNCHANGED <<storeVars, concVars, mainVars, sessVars>>

InitLoader ==
    /\ InitStore
    /\ InitThreads
    /\ InitAttached
    /\ InitSessionIdle
    /\ config \in SeqsUpTo(TaskConfigs, MaxTasks)
    /\ lpc = "loaded"
    /\ next_task = 1
    /\ target_tids = [k \in {} |-> target_ctx_t(TaskConfig(0, 0, 0, 0))]

NextLoader ==
    \/ \E ok \in BOOLEAN : Loader_Update(ok)
    \/ \E ok \in BOOLEAN : Loader_Attach(ok)

SpecLoader == InitLoader /\ [][NextLoader]_vars

\* the position of the last record of the configuration for task id t
LastRecord(t) ==
    SetMax({ i \in 1..Len(config) : config[i].tid = t })

ConfiguredTids == { config[i].tid : i \in 1..Len(config) }

C19_AllPushedAtAttach ==
    lpc = "attached" =>
        /\ next_task = Len(config) + 1
        /\ DOMAIN target_tids = ConfiguredTids
        /\ \A t \in ConfiguredTids :
              target_tids[t] = target_ctx_t(config[LastRecord(t)])

C19_FailedStays == lpc = "failed" => lpc' = "failed"

\* C19: when the struct_ops is attached every record of the configuration
\* has been pushed into target_tids, which holds for each task id the
\* values of the last record with that id; after a failed push the loader
\* has failed for good and the struct_ops is never attached.
C19_OverridesBeforeAttach ==
    /\ []C19_AllPushedAtAttach
    /\ [][C19_FailedStays]_vars

\* attached after two records of one task id with different values
C19_Witness ==
    /\ lpc = "attached"
    /\ \E i, j \in 1..Len(config) :
          /\ i < j
          /\ config[i].tid = config[j].tid
          /\ target_ctx_t(config[i]) # target_ctx_t(config[j])

\* a push failed with records left to push
C19_PushFailed == lpc = "failed" /\ next_task <= Len(config)

----------------------------------------------------------------------------
(* The accumulator, once more *)

\* C17: the update has no failure modes: every event handed to
\* TaskStats::update is counted and leaves the polling thread running,
\* also when one of the u64 sums would pass U64_MAX.
C17_UpdateNeverFails ==
    [][Dispatched =>
         /\ pc' = "running"
         /\ stats'[LastEvent.tid].event_count =
              Before(LastEvent.tid).event_count + 1]_vars

\* C20: in every accumulator of the store, a task that has slept has
\* recorded fewer intervals than sleeps and has a non-zero last_sleep_end;
\* a task that has not slept has no interval and last_sleep_end = 0.
C20_IntervalsBelowSleeps ==
    \A t \in DOMAIN stats :
        /\ stats[t].sleep_count > 0 =>
              stats[t].sleep_interval_count <= stats[t].sleep_count - 1
        /\ stats[t].sleep_count = 0 => stats[t].sleep_interval_count = 0
        /\ stats[t].last_sleep_end > 0 <=> stats[t].sleep_count > 0

\* a task with three sleeps and two intervals
C20_Witness ==
    \E t \in DOMAIN stats :
        /\ stats[t].sleep_count = 3
        /\ stats[t].sleep_interval_count = 2

====
